---- MODULE Spec2Model ----
(***************************************************************************)
(* Model of MCP_Enhancement/agent_start.py: the recursive ADF text         *)
(* extractor parse_adf_text and the duplicate-comment filter of            *)
(* get_jira_ticket_details.                                                *)
(*                                                                         *)
(* Python strings that the code joins, strips or compares are sequences of *)
(* one-character strings; JSON values are records [k, v] with k the Python *)
(* type of the value and v its payload.                                    *)
(***************************************************************************)
EXTENDS Integers, Sequences, FiniteSets, TLC

VARIABLES
    adf_node,       \* SpecParse: the argument of one parse_adf_text call
    parsed,         \* SpecParse: the outcome of that call, NotCalled before it
    walk_root,      \* SpecWalk: the argument of the outermost call
    walk_stack,     \* SpecWalk: the call stack of parse_adf_text, innermost last
    walk_pc,        \* SpecWalk: "idle", "running", "returned" or "raised"
    walk_ret,       \* SpecWalk: the value the outermost call returned
    walk_calls,     \* SpecWalk: how many times parse_adf_text has been entered
    walk_order,     \* SpecWalk: the arguments of those calls, in call order
    walk_first,     \* SpecWalk: what the first of two outermost calls gave
    pc,             \* Spec: where get_jira_ticket_details stands
    ticket_key,     \* Spec: its argument
    summary,        \* Spec: local summary (line 132)
    description,    \* Spec: local description (line 135)
    comments_data,  \* Spec: local comments_data (line 138)
    idx,            \* Spec: position of the for loop of line 142, from 1
    comments_text,  \* Spec: local comments_text, the report lines (line 139)
    seen_comments,  \* Spec: local seen_comments (line 140)
    emitted,        \* Spec: the (author, body) pair behind each report line
    result,         \* Spec: the returned string, as its segments
    resp,           \* Spec: local resp (line 125): its status and its JSON
    inv,            \* SpecPair: the locals of each of two invocations
    issue_pc,       \* SpecIssue: where get_issue_context stands
    issue_key,      \* SpecIssue: its argument
    issue,          \* SpecIssue: what jira.issue(issue_key) gave (line 128)
    issue_pos,      \* SpecIssue: position of the for loop of line 133, from 1
    recent_comments, \* SpecIssue: local recent_comments (line 132)
    issue_result,   \* SpecIssue: the returned string, as its segments
    post_pc,        \* SpecPost: where post_mifos_summary stands
    post_args,      \* SpecPost: its arguments and the environment it reads
    slack_log,      \* SpecPost: the Slack calls made so far, in order
    post_result,    \* SpecPost: the returned string, or the exception that left
    phase_pc,       \* SpecPhase: where run_phase_1_test stands
    phase_env,      \* SpecPhase: os.getenv("MY_SLACK_ID") (line 76)
    pr_title,       \* SpecPhase: local pr_title (line 37)
    pr_body,        \* SpecPhase: local pr_body (line 38)
    jira_id,        \* SpecPhase: local jira_id (line 53), empty before
    phase_trace     \* SpecPhase: the outbound steps made so far, in order

parseVars == <<adf_node, parsed>>
walkVars == <<walk_root, walk_stack, walk_pc, walk_ret, walk_calls, walk_order,
              walk_first>>
ticketVars == <<pc, ticket_key, summary, description, comments_data, idx,
                comments_text, seen_comments, emitted, result, resp>>
pairVars == <<inv>>
issueVars == <<issue_pc, issue_key, issue, issue_pos, recent_comments,
               issue_result>>
postVars == <<post_pc, post_args, slack_log, post_result>>
phaseVars == <<phase_pc, phase_env, pr_title, pr_body, jira_id, phase_trace>>
sideVars == <<inv, issue_pc, issue_key, issue, issue_pos, recent_comments,
              issue_result, post_pc, post_args, slack_log, post_result,
              phase_pc, phase_env, pr_title, pr_body, jira_id, phase_trace>>
vars == <<adf_node, parsed, walk_root, walk_stack, walk_pc, walk_ret, walk_calls,
          walk_order, walk_first,
          pc, ticket_key, summary, description, comments_data, idx,
          comments_text, seen_comments, emitted, result, resp,
          inv, issue_pc, issue_key, issue, issue_pos, recent_comments,
          issue_result, post_pc, post_args, slack_log, post_result,
          phase_pc, phase_env, pr_title, pr_body, jira_id, phase_trace>>
----------------------------------------------------------------------------
(* Bounds of the explored inputs. *)

\* the most dicts (leaves and containers) of an enumerated tree
MaxNodes == 4
\* the most comments of an enumerated ticket
MaxComments == 3

----------------------------------------------------------------------------
(* JSON values as Python sees them after resp.json(). *)

Null == [k |-> "null", v |-> <<>>]
Str(s) == [k |-> "str", v |-> s]
Num(n) == [k |-> "num", v |-> n]
\* a dict is its items in iteration (insertion) order: <<key, value>> pairs
Dict(items) == [k |-> "dict", v |-> items]
List(items) == [k |-> "list", v |-> items]

IsDict(x) == x.k = "dict"
IsList(x) == x.k = "list"
IsStr(x) == x.k = "str"

\* Python truth value: None, "", 0, {} and [] are falsy
Truthy(x) ==
    CASE x.k = "null" -> FALSE
      [] x.k = "num" -> x.v # 0
      [] OTHER -> Len(x.v) > 0

\* dict.get(key, default)
DictGet(d, key, default) ==
    IF \E i \in 1..Len(d.v) : d.v[i][1] = key
    THEN LET i == CHOOSE j \in 1..Len(d.v) : d.v[j][1] = key IN d.v[i][2]
    ELSE default

\* key in d
HasKey(d, key) == \E i \in 1..Len(d.v) : d.v[i][1] = key

\* dict.values(), in iteration order
DictValues(d) == [i \in 1..Len(d.v) |-> d.v[i][2]]

SP == " "
TEXT == <<"t", "e", "x", "t">>
PARAGRAPH == <<"p", "a", "r", "a", "g", "r", "a", "p", "h">>
DOC == <<"d", "o", "c">>

----------------------------------------------------------------------------
(* Python string operations used by the code. *)

\* filter(None, texts): the truthy elements, in order
RECURSIVE FilterTruthy(_)
FilterTruthy(texts) ==
    IF texts = <<>> THEN <<>>
    ELSE IF Truthy(Head(texts)) THEN <<Head(texts)>> \o FilterTruthy(Tail(texts))
    ELSE FilterTruthy(Tail(texts))

\* sep.join(strs) for a sequence of strings
RECURSIVE JoinWith(_, _)
JoinWith(sep, strs) ==
    IF strs = <<>> THEN <<>>
    ELSE IF Len(strs) = 1 THEN strs[1]
    ELSE strs[1] \o sep \o JoinWith(sep, Tail(strs))

\* the outcome of a call: a returned string or a raised exception
Returned(s) == [kind |-> "return", val |-> s]
Raised(e) == [kind |-> "raise", val |-> e]
NotCalled == [kind |-> "none", val |-> <<>>]

\* " ".join(filter(None, texts)): str.join raises TypeError on a non-str item
JoinTextsUnfiltered(texts) ==
    LET kept == FilterTruthy(texts)
        strs == SelectSeq(texts, IsStr)
    IN IF \E i \in 1..Len(kept) : ~IsStr(kept[i])
       THEN Raised("TypeError")
       ELSE Returned(JoinWith(<<SP>>, [i \in 1..Len(strs) |-> strs[i].v]))

JoinTexts(texts) ==
    LET kept == FilterTruthy(texts)
    IN IF \E i \in 1..Len(kept) : ~IsStr(kept[i])
       THEN Raised("TypeError")
       ELSE Returned(JoinWith(<<SP>>, [i \in 1..Len(kept) |-> kept[i].v]))

----------------------------------------------------------------------------
(* parse_adf_text, agent_start.py lines 107-121. *)

\* lines 113-114: the node's own fragment, appended before any descendant's
OwnTextAnyTag(node) ==
    IF HasKey(node, "text") THEN <<DictGet(node, "text", Str(<<>>))>> ELSE <<>>

OwnText(node) ==
    IF DictGet(node, "type", Null) = Str(TEXT)
    THEN <<DictGet(node, "text", Str(<<>>))>>
    ELSE <<>>

\* lines 115-116 and 119: the values parse_adf_text is called on, in order
SubNodesReversed(node) ==
    LET subs == IF IsDict(node)
                THEN SelectSeq(DictValues(node), LAMBDA x : IsDict(x) \/ IsList(x))
                ELSE IF IsList(node) THEN node.v ELSE <<>>
    IN [i \in 1..Len(subs) |-> subs[Len(subs) + 1 - i]]

SubNodesListsOnly(node) ==
    IF IsDict(node)
    THEN SelectSeq(DictValues(node), IsList)
    ELSE IF IsList(node) THEN node.v ELSE <<>>

SubNodes(node) ==
    IF IsDict(node)
    THEN SelectSeq(DictValues(node), LAMBDA x : IsDict(x) \/ IsList(x))
    ELSE IF IsList(node) THEN node.v ELSE <<>>

RECURSIVE parse_adf_text(_)
parse_adf_text(node) ==
    IF ~Truthy(node) THEN Returned(<<>>)
    ELSE LET subs == SubNodes(node)
             rets == [i \in 1..Len(subs) |-> parse_adf_text(subs[i])]
             own == IF IsDict(node) THEN OwnText(node) ELSE <<>>
         IN IF \E i \in 1..Len(rets) : rets[i].kind = "raise"
            THEN rets[CHOOSE i \in 1..Len(rets) :
                        /\ rets[i].kind = "raise"
                        /\ \A j \in 1..(i - 1) : rets[j].kind # "raise"]
            ELSE JoinTexts(own \o [i \in 1..Len(rets) |-> Str(rets[i].val)])

----------------------------------------------------------------------------
(* The enumerated inputs of parse_adf_text.                                *)

SeqsUpTo(S, n) == UNION {[1..m -> S] : m \in 0..n}

\* {"type": "text", "text": tv}
TextLeaf(tv) == Dict(<< <<"type", Str(TEXT)>>, <<"text", tv>> >>)

\* the leaves that occur below containers
ChildLeaves ==
    { TextLeaf(Str(<<"a">>)), TextLeaf(Str(<<"b">>)), TextLeaf(Str(<<>>)),
      TextLeaf(Str(<<SP>>)), TextLeaf(Num(5)),
      Dict(<< <<"type", Str(PARAGRAPH)>>, <<"text", Str(<<"a">>)>> >>) }

\* {"type": tag, "version": 1, "content": [kids]}: an ADF block with a scalar field
Container(tag, kids) ==
    Dict(<< <<"type", Str(tag)>>, <<"version", Num(1)>>, <<"content", List(kids)>> >>)

\* a text-tagged dict that also holds each kid under a field of its own, the
\* "type" and "text" fields coming last in iteration order
FieldNames == <<"content", "marks", "attrs", "extra", "more", "rest">>
TextWith(kids) ==
    Dict([i \in 1..Len(kids) |-> <<FieldNames[i], kids[i]>>]
         \o << <<"type", Str(TEXT)>>, <<"text", Str(<<"b">>)>> >>)

\* the trees of exactly n dicts over a set of leaves, of any shape, and the
\* sequences of trees of n dicts in all
RECURSIVE TreesOfSize(_, _)
RECURSIVE ForestsOfSize(_, _)
TreesOfSize(leaves, n) ==
    IF n = 1
    THEN leaves \cup {Container(PARAGRAPH, <<>>), TextWith(<<>>)}
    ELSE {Container(PARAGRAPH, kids) : kids \in ForestsOfSize(leaves, n - 1)}
            \cup {TextWith(kids) : kids \in ForestsOfSize(leaves, n - 1)}

ForestsOfSize(leaves, n) ==
    IF n = 0 THEN {<<>>}
    ELSE UNION { {<<t>> \o f : t \in TreesOfSize(leaves, k),
                               f \in ForestsOfSize(leaves, n - k)} : k \in 1..n }

\* inputs that are given to the outermost call only
TopOnly ==
    { Null, Dict(<<>>), List(<<>>), Str(<<"a">>), Str(<<>>), Num(0), Num(5),
      Dict(<< <<"type", Str(TEXT)>> >>),
      TextLeaf(Null),
      TextLeaf(List(<<Str(<<"a">>)>>)),
      TextLeaf(TextLeaf(Str(<<"a">>))),
      Dict(<< <<"text", Str(<<"a">>)>> >>),
      Dict(<< <<"type", Null>>, <<"text", Str(<<"a">>)>> >>),
      List(<<Str(<<"a">>), Null, TextLeaf(Str(<<"a">>)), Num(5)>>),
      List(<<TextLeaf(Str(<<"a">>)), TextLeaf(Str(<<>>)), Dict(<<>>),
             TextLeaf(Str(<<"b">>))>>),
      \* {"type":"doc","content":[{"type":"paragraph","content":[a, b]}]}
      Dict(<< <<"type", Str(DOC)>>,
              <<"content", List(<<Dict(<< <<"type", Str(PARAGRAPH)>>,
                   <<"content", List(<<TextLeaf(Str(<<"a">>)),
                                       TextLeaf(Str(<<"b">>))>>)>> >>)>>)>> >>) }

\* the inputs enumerated over a set of leaves
Roots(leaves) == UNION {TreesOfSize(leaves, n) : n \in 1..MaxNodes} \cup TopOnly

----------------------------------------------------------------------------
(* SpecParse: one call of parse_adf_text on an enumerated input.           *)

WalkIdle ==
    /\ walk_root = Null
    /\ walk_stack = <<>>
    /\ walk_pc = "idle"
    /\ walk_ret = NotCalled
    /\ walk_calls = 0
    /\ walk_order = <<>>
    /\ walk_first = NotCalled

ParseIdle == adf_node = Null /\ parsed = NotCalled

TicketIdle ==
    /\ pc = "idle"
    /\ ticket_key = ""
    /\ summary = <<>>
    /\ description = <<>>
    /\ comments_data = <<>>
    /\ idx = 1
    /\ comments_text = <<>>
    /\ seen_comments = {}
    /\ emitted = <<>>
    /\ result = <<>>
    /\ resp = [status |-> 0, json |-> Null]

PairIdle == inv = <<>>

\* no answer of the tracker yet; an answer is an issue (kind "issue", with
\* its assignee and comments) or an exception raised by the read (kind
\* "JIRAError" with its status code, or kind "Exception")
NoAnswer == [kind |-> "none", status_code |-> 0, assignee |-> <<>>, comments |-> <<>>]

IssueIdle ==
    /\ issue_pc = "idle"
    /\ issue_key = ""
    /\ issue = NoAnswer
    /\ issue_pos = 1
    /\ recent_comments = <<>>
    /\ issue_result = <<>>

PostIdle ==
    /\ post_pc = "idle"
    /\ post_args = <<>>
    /\ slack_log = <<>>
    /\ post_result = <<>>

PhaseIdle ==
    /\ phase_pc = "idle"
    /\ phase_env = ""
    /\ pr_title = <<>>
    /\ pr_body = <<>>
    /\ jira_id = <<>>
    /\ phase_trace = <<>>

SideIdle == PairIdle /\ IssueIdle /\ PostIdle /\ PhaseIdle

InitParse ==
    /\ adf_node \in Roots(ChildLeaves)
    /\ parsed = NotCalled
    /\ WalkIdle
    /\ TicketIdle
    /\ SideIdle

CallParse ==
    /\ parsed = NotCalled
    /\ parsed' = parse_adf_text(adf_node)
    /\ UNCHANGED <<adf_node, walkVars, ticketVars, sideVars>>

NextParse == CallParse

SpecParse == InitParse /\ [][NextParse]_vars

----------------------------------------------------------------------------
(* SpecWalk: parse_adf_text executed call by call. A frame is one          *)
(* activation: its argument, its local list texts, and the values its      *)
(* loops (lines 115-117, 119-120) have not reached yet.                    *)

\* the leaves below containers in the trees SpecWalk walks
WalkLeaves == { TextLeaf(Str(<<"a">>)), TextLeaf(Str(<<>>)), TextLeaf(Num(5)) }

\* lines 109-114: a call's locals when it reaches its loop; a falsy argument
\* returns "" at line 110 without looking at any value
Frame(node) ==
    [ node |-> node,
      texts |-> IF Truthy(node) /\ IsDict(node) THEN OwnText(node) ELSE <<>>,
      todo |-> IF Truthy(node) THEN SubNodes(node) ELSE <<>> ]

InitWalk ==
    /\ walk_root \in Roots(WalkLeaves)
    /\ walk_stack = <<>>
    /\ walk_pc = "idle"
    /\ walk_ret = NotCalled
    /\ walk_calls = 0
    /\ walk_order = <<>>
    /\ walk_first = NotCalled
    /\ ParseIdle
    /\ TicketIdle
    /\ SideIdle

\* the outermost call, as made at lines 135 and 145
WalkEnter ==
    /\ walk_pc = "idle"
    /\ walk_pc' = "running"
    /\ walk_stack' = <<Frame(walk_root)>>
    /\ walk_calls' = 1
    /\ walk_order' = <<walk_root>>
    /\ UNCHANGED <<walk_root, walk_ret, walk_first, parseVars, ticketVars, sideVars>>

\* lines 117 and 120: the recursive call on the next value of the loop
WalkDescend ==
    /\ walk_pc = "running"
    /\ LET n == Len(walk_stack)
           top == walk_stack[n]
       IN /\ top.todo # <<>>
          /\ walk_stack' = [walk_stack EXCEPT ![n].todo = Tail(top.todo)]
                               \o <<Frame(Head(top.todo))>>
          /\ walk_order' = Append(walk_order, Head(top.todo))
    /\ walk_calls' = walk_calls + 1
    /\ UNCHANGED <<walk_root, walk_pc, walk_ret, walk_first, parseVars, ticketVars, sideVars>>

\* WalkReturn with an outermost call that empties the tree it was given
WalkReturnConsumes ==
    /\ walk_pc = "running"
    /\ LET n == Len(walk_stack)
           top == walk_stack[n]
           out == JoinTexts(top.texts)
       IN /\ top.todo = <<>>
          /\ out.kind = "return"
          /\ IF n = 1
             THEN /\ walk_stack' = <<>>
                  /\ walk_pc' = "returned"
                  /\ walk_ret' = out
                  /\ walk_root' = Null
             ELSE /\ walk_stack' =
                        [SubSeq(walk_stack, 1, n - 1) EXCEPT
                            ![n - 1].texts = Append(@, Str(out.val))]
                  /\ UNCHANGED <<walk_pc, walk_ret, walk_root>>
    /\ UNCHANGED <<walk_calls, walk_order, walk_first, parseVars, ticketVars, sideVars>>

\* line 121 (or 110), the join succeeding: the caller appends the result
WalkReturn ==
    /\ walk_pc = "running"
    /\ LET n == Len(walk_stack)
           top == walk_stack[n]
           out == JoinTexts(top.texts)
       IN /\ top.todo = <<>>
          /\ out.kind = "return"
          /\ IF n = 1
             THEN /\ walk_stack' = <<>>
                  /\ walk_pc' = "returned"
                  /\ walk_ret' = out
             ELSE /\ walk_stack' =
                        [SubSeq(walk_stack, 1, n - 1) EXCEPT
                            ![n - 1].texts = Append(@, Str(out.val))]
                  /\ UNCHANGED <<walk_pc, walk_ret>>
    /\ UNCHANGED <<walk_root, walk_calls, walk_order, walk_first, parseVars, ticketVars, sideVars>>

\* line 121, the join raising: no activation handles it, all are left
WalkRaise ==
    /\ walk_pc = "running"
    /\ LET n == Len(walk_stack)
           top == walk_stack[n]
           out == JoinTexts(top.texts)
       IN /\ top.todo = <<>>
          /\ out.kind = "raise"
          /\ walk_stack' = <<>>
          /\ walk_pc' = "raised"
          /\ walk_ret' = out
    /\ UNCHANGED <<walk_root, walk_calls, walk_order, walk_first, parseVars, ticketVars, sideVars>>

\* the caller keeps the result and calls again on the same tree, as lines 135
\* and 145 call one after the other
WalkAgain ==
    /\ walk_pc \in {"returned", "raised"}
    /\ walk_first = NotCalled
    /\ walk_first' = walk_ret
    /\ walk_pc' = "idle"
    /\ walk_ret' = NotCalled
    /\ walk_calls' = 0
    /\ walk_order' = <<>>
    /\ UNCHANGED <<walk_root, walk_stack, parseVars, ticketVars, sideVars>>

NextWalk == WalkEnter \/ WalkDescend \/ WalkReturn \/ WalkRaise \/ WalkAgain

\* the interpreter runs a started call to its end
SpecWalk == InitWalk /\ [][NextWalk]_vars /\ WF_vars(NextWalk)

----------------------------------------------------------------------------
(* get_jira_ticket_details, agent_start.py lines 97-164.                   *)

\* str.strip(): leading and trailing whitespace removed
RECURSIVE LStrip(_)
LStrip(s) == IF s # <<>> /\ Head(s) = SP THEN LStrip(Tail(s)) ELSE s

RECURSIVE RStrip(_)
RStrip(s) ==
    IF s # <<>> /\ s[Len(s)] = SP THEN RStrip(SubSeq(s, 1, Len(s) - 1)) ELSE s

Strip(s) == RStrip(LStrip(s))

\* str.lower() on the letters of the model
Lower(s) == [i \in 1..Len(s) |-> IF s[i] = "A" THEN "a" ELSE IF s[i] = "B" THEN "b" ELSE s[i]]

UNKNOWN == <<"U", "n", "k", "n", "o", "w", "n">>

\* line 143: c.get("author", {}).get("displayName", "Unknown"); .get on a value
\* that is no dict raises AttributeError
CommentAuthor(c) ==
    LET author == DictGet(c, "author", Dict(<<>>))
    IN IF IsDict(author)
       THEN Returned(DictGet(author, "displayName", Str(UNKNOWN)).v)
       ELSE Raised("AttributeError")

\* line 145: parse_adf_text(c.get("body")).strip()
CommentBody(c) ==
    LET out == parse_adf_text(DictGet(c, "body", Null))
    IN IF out.kind = "return" THEN Returned(Strip(out.val)) ELSE out

\* line 148: the unique filter
KeepCommentNoSeen(body, seen) == body # <<>>

KeepCommentAllowEmpty(body, seen) == body \notin seen

KeepCommentCaseFold(body, seen) ==
    body # <<>> /\ \A s \in seen : Lower(s) # Lower(body)

KeepComment(body, seen) == body # <<>> /\ body \notin seen

\* line 149: f"- {author}: {body}"
Line(author, body) == <<"-", SP>> \o author \o <<":", SP>> \o body

\* lines 143-150: one pass of the loop body over comment c; acc holds the
\* locals comments_text and seen_comments, and the pairs behind the lines
FilterStepPrepend(acc, c) ==
    LET author == CommentAuthor(c)
        body == IF author.kind = "return" THEN CommentBody(c) ELSE author
    IN IF body.kind = "raise" THEN [acc EXCEPT !.raised = body.val]
       ELSE IF KeepComment(body.val, acc.seen)
       THEN [acc EXCEPT
               !.text = <<Line(author.val, body.val)>> \o @,
               !.seen = @ \cup {body.val},
               !.pairs = <<[author |-> author.val, text |-> body.val]>> \o @]
       ELSE acc

FilterStepSeenShort(acc, c) ==
    LET author == CommentAuthor(c)
        body == IF author.kind = "return" THEN CommentBody(c) ELSE author
        short == IF body.kind = "return" /\ body.val # <<>>
                 THEN SubSeq(body.val, 1, 1) ELSE <<>>
    IN IF body.kind = "raise" THEN [acc EXCEPT !.raised = body.val]
       ELSE IF KeepComment(body.val, acc.seen)
       THEN [acc EXCEPT
               !.text = Append(@, Line(author.val, short)),
               !.seen = @ \cup {body.val},
               !.pairs = Append(@, [author |-> author.val, text |-> short])]
       ELSE acc

\* FilterStep remembering only the last text it kept
FilterStepSeenLast(acc, c) ==
    LET author == CommentAuthor(c)
        body == IF author.kind = "return" THEN CommentBody(c) ELSE author
    IN IF body.kind = "raise" THEN [acc EXCEPT !.raised = body.val]
       ELSE IF KeepComment(body.val, acc.seen)
       THEN [acc EXCEPT
               !.text = Append(@, Line(author.val, body.val)),
               !.seen = {body.val},
               !.pairs = Append(@, [author |-> author.val, text |-> body.val])]
       ELSE acc

FilterStep(acc, c) ==
    LET author == CommentAuthor(c)
        body == IF author.kind = "return" THEN CommentBody(c) ELSE author
    IN IF body.kind = "raise" THEN [acc EXCEPT !.raised = body.val]
       ELSE IF KeepComment(body.val, acc.seen)
       THEN [acc EXCEPT
               !.text = Append(@, Line(author.val, body.val)),
               !.seen = @ \cup {body.val},
               !.pairs = Append(@, [author |-> author.val, text |-> body.val])]
       ELSE acc

\* lines 139-140: the locals before the loop
EmptyAcc == [text |-> <<>>, seen |-> {}, pairs |-> <<>>, raised |-> ""]

\* lines 139-150 as a whole: the loop over comments cs, left at the first raise
RECURSIVE RunFilter(_, _)
RunFilter(acc, cs) ==
    IF cs = <<>> \/ acc.raised # "" THEN acc
    ELSE RunFilter(FilterStep(acc, Head(cs)), Tail(cs))

----------------------------------------------------------------------------
(* The tracker's answers.                                                  *)

TicketKeys == {"ABC-1"}

AuthorNamed(name) == Dict(<< <<"displayName", Str(name)>> >>)

Comment(author, body) == Dict(<< <<"author", author>>, <<"body", body>> >>)

ParagraphAB ==
    Container(DOC, <<Container(PARAGRAPH,
                        <<TextLeaf(Str(<<"a">>)), TextLeaf(Str(<<"b">>))>>)>>)

CommentPool ==
    { Comment(AuthorNamed(<<"A">>), TextLeaf(Str(<<"a">>))),
      Comment(AuthorNamed(<<"B">>), TextLeaf(Str(<<"a">>))),
      Comment(AuthorNamed(<<"B">>), TextLeaf(Str(<<"a", SP>>))),
      Comment(AuthorNamed(<<"A">>), TextLeaf(Str(<<"A">>))),
      Comment(AuthorNamed(<<"B">>), TextLeaf(Str(<<SP>>))),
      Comment(AuthorNamed(<<"B">>), ParagraphAB),
      \* no "body" field
      Dict(<< <<"author", AuthorNamed(<<"A">>)>> >>),
      \* no "author" field
      Dict(<< <<"body", TextLeaf(Str(<<"b">>))>> >>),
      \* an author without "displayName"
      Comment(Dict(<< <<"accountId", Str(<<"7">>)>> >>), TextLeaf(Str(<<"a", SP, "b">>))),
      \* "author": null
      Comment(Null, TextLeaf(Str(<<"a">>))),
      \* a body whose text is a number
      Comment(AuthorNamed(<<"A">>), TextLeaf(Num(5))) }

\* the scenario of spec section 8: A "fix applied", B "fix applied", C "",
\* D "looks good", with "a" for "fix applied" and "a b" for "looks good"
ScenarioComments ==
    << Comment(AuthorNamed(<<"A">>), TextLeaf(Str(<<"a">>))),
       Comment(AuthorNamed(<<"B">>), TextLeaf(Str(<<"a">>))),
       Comment(AuthorNamed(<<"C">>), TextLeaf(Str(<<>>))),
       Comment(AuthorNamed(<<"D">>), TextLeaf(Str(<<"a", SP, "b">>))) >>

\* the comment lists of at most n pool comments, and the scenario
CommentLists(n) == SeqsUpTo(CommentPool, n) \cup {ScenarioComments}

\* the "summary" and "description" fields of an answer
Headers ==
    { << <<"summary", Str(<<"s">>)>>, <<"description", ParagraphAB>> >>,
      << <<"description", Null>> >>,
      << <<"summary", Str(<<"s">>)>>, <<"description", TextLeaf(Num(5))>> >> }

\* resp.json() of a 200 answer
Ticket(header, comments) ==
    Dict(<< <<"key", Str(<<"K">>)>>,
            <<"fields", Dict(header \o
                << <<"comment", Dict(<< <<"comments", List(comments)>> >>)>> >>)>> >>)

Tickets(n) == {Ticket(h, cs) : h \in Headers, cs \in CommentLists(n)}

FailureStatuses == {404, 500}

Lit(s) == [k |-> "lit", v |-> s]

----------------------------------------------------------------------------
(* Spec: one invocation of get_jira_ticket_details.                        *)

Init ==
    /\ TicketIdle
    /\ ParseIdle
    /\ WalkIdle
    /\ SideIdle

Finish(segments) ==
    /\ pc' = "done"
    /\ result' = segments

\* lines 103-105: the call, and the early return when JIRA_URL is not set
Invoke ==
    /\ pc = "idle"
    /\ \E key \in TicketKeys, url_set \in BOOLEAN :
          /\ ticket_key' = key
          /\ IF url_set
             THEN pc' = "fetch" /\ UNCHANGED result
             ELSE Finish(<<Lit("Error: JIRA_URL not set.")>>)
    /\ UNCHANGED <<summary, description, comments_data, idx, comments_text,
                   seen_comments, emitted, resp, parseVars, walkVars, sideVars>>

\* str(e) of what requests.get raises when no answer arrives: the text is
\* the library's, and it holds the request's path only for some failures
\* ("Max retries exceeded with url: <path>" when no connection is made,
\* "Connection aborted." when the connection is dropped)
TransportCauses(key) ==
    { <<Lit("Max retries exceeded with url: /rest/api/3/issue/"), Lit(key)>>,
      <<Lit("Connection aborted.")>> }

\* line 125 raising (the tracker cannot be reached), handled at lines 163-164
FetchRaises ==
    /\ pc = "fetch"
    /\ \E cause \in TransportCauses(ticket_key) :
          Finish(<<Lit("Exception reading Jira: ")>> \o cause)
    /\ UNCHANGED <<ticket_key, summary, description, comments_data, idx,
                   comments_text, seen_comments, emitted, resp, parseVars, walkVars, sideVars>>

\* FetchFails with a message that leaves the ticket key out
FetchFailsNoKey ==
    /\ pc = "fetch"
    /\ \E status \in FailureStatuses :
          /\ resp' = [status |-> status, json |-> Null]
          /\ Finish(<<Lit("Error fetching ticket: "), Num(status)>>)
    /\ UNCHANGED <<ticket_key, summary, description, comments_data, idx,
                   comments_text, seen_comments, emitted, parseVars, walkVars, sideVars>>

\* lines 125-128: an answer whose status is not 200
FetchFails ==
    /\ pc = "fetch"
    /\ \E status \in FailureStatuses :
          /\ resp' = [status |-> status, json |-> Null]
          /\ Finish(<<Lit("Error fetching ticket "), Lit(ticket_key), Lit(": "),
                      Num(status)>>)
    /\ UNCHANGED <<ticket_key, summary, description, comments_data, idx,
                   comments_text, seen_comments, emitted, parseVars, walkVars, sideVars>>

\* lines 125-140: a 200 answer, read up to the start of the comment loop
FetchOk ==
    /\ pc = "fetch"
    /\ \E data \in Tickets(MaxComments) :
          LET fields == DictGet(data, "fields", Dict(<<>>))
              text == parse_adf_text(DictGet(fields, "description", Null))
          IN /\ resp' = [status |-> 200, json |-> data]
             /\ IF text.kind = "raise"
                THEN /\ Finish(<<Lit("Exception reading Jira: "), Lit(text.val)>>)
                     /\ UNCHANGED <<summary, description, comments_data>>
                ELSE /\ summary' = DictGet(fields, "summary", Lit("No Summary"))
                     /\ description' = IF text.val # <<>> THEN Str(text.val)
                                       ELSE Lit("No Description")
                     /\ comments_data' =
                           DictGet(DictGet(fields, "comment", Dict(<<>>)),
                                   "comments", List(<<>>)).v
                     /\ pc' = "loop"
                     /\ UNCHANGED result
    /\ UNCHANGED <<ticket_key, idx, comments_text, seen_comments, emitted,
                   parseVars, walkVars, sideVars>>

\* lines 142-150: the loop body on the next comment; an exception in it is
\* handled at lines 163-164
LoopStep ==
    /\ pc = "loop"
    /\ idx <= Len(comments_data)
    /\ LET acc == FilterStep([text |-> comments_text, seen |-> seen_comments,
                              pairs |-> emitted, raised |-> ""],
                             comments_data[idx])
       IN IF acc.raised # ""
          THEN /\ Finish(<<Lit("Exception reading Jira: "), Lit(acc.raised)>>)
               /\ UNCHANGED <<idx, comments_text, seen_comments, emitted>>
          ELSE /\ idx' = idx + 1
               /\ comments_text' = acc.text
               /\ seen_comments' = acc.seen
               /\ emitted' = acc.pairs
               /\ UNCHANGED <<pc, result>>
    /\ UNCHANGED <<ticket_key, summary, description, comments_data, resp,
                   parseVars, walkVars, sideVars>>

\* Assemble leaving the discussion section out when no comment was kept
AssembleOmitsEmpty ==
    /\ pc = "loop"
    /\ idx > Len(comments_data)
    /\ Finish(<<Lit("**Ticket:** "), Lit(ticket_key),
                Lit("\n**Summary:** "), summary,
                Lit("\n**Description:** "), description>> \o
              IF comments_text # <<>>
              THEN <<Lit("\n\n**Discussion/Comments:**\n"),
                     Str(JoinWith(<<"\n">>, comments_text))>>
              ELSE <<>>)
    /\ UNCHANGED <<ticket_key, summary, description, comments_data, idx,
                   comments_text, seen_comments, emitted, resp, parseVars, walkVars, sideVars>>

\* lines 153-161: the report
Assemble ==
    /\ pc = "loop"
    /\ idx > Len(comments_data)
    /\ Finish(<<Lit("**Ticket:** "), Lit(ticket_key),
                Lit("\n**Summary:** "), summary,
                Lit("\n**Description:** "), description,
                Lit("\n\n**Discussion/Comments:**\n"),
                IF comments_text # <<>>
                THEN Str(JoinWith(<<"\n">>, comments_text))
                ELSE Lit("No comments found.")>>)
    /\ UNCHANGED <<ticket_key, summary, description, comments_data, idx,
                   comments_text, seen_comments, emitted, resp, parseVars, walkVars, sideVars>>

Next == Invoke \/ FetchRaises \/ FetchFails \/ FetchOk \/ LoopStep \/ Assemble

Spec == Init /\ [][Next]_vars

----------------------------------------------------------------------------
(* SpecPair: two invocations of get_jira_ticket_details whose steps         *)
(* interleave.  Each invocation has its own locals (lines 103-153 assign   *)
(* names of the function's frame only) and the log of the HTTP calls it   *)
(* has issued.                                                             *)

MaxPairComments == 2

Calls == {"first", "second"}

PairKeys == {"ABC-1", "XYZ-2"}

PairCommentPool ==
    { Comment(AuthorNamed(<<"A">>), TextLeaf(Str(<<"a">>))),
      Comment(AuthorNamed(<<"B">>), TextLeaf(Str(<<"b">>))),
      Comment(Null, TextLeaf(Str(<<"b">>))) }

PairTickets(n) ==
    {Ticket(<< <<"summary", Str(<<"s">>)>> >>, cs) : cs \in SeqsUpTo(PairCommentPool, n)}

\* the frame of an invocation that has not started
IdleCall ==
    [pc |-> "idle", ticket_key |-> "", url_set |-> FALSE,
     resp |-> [status |-> 0, json |-> Null],
     summary |-> <<>>, description |-> <<>>, comments_data |-> <<>>, idx |-> 1,
     comments_text |-> <<>>, seen_comments |-> {}, emitted |-> <<>>,
     result |-> <<>>, http |-> <<>>]

notPairVars == <<parseVars, walkVars, ticketVars, issueVars, postVars, phaseVars>>

InitPair ==
    /\ inv = [i \in Calls |-> IdleCall]
    /\ TicketIdle
    /\ ParseIdle
    /\ WalkIdle
    /\ IssueIdle
    /\ PostIdle
    /\ PhaseIdle

\* line 125: the one HTTP call of the function, a GET of the issue
Get(key) == [method |-> "GET", path |-> <<"/rest/api/3/issue/", key>>]

\* PInvoke answering from the result of a finished invocation for the same
\* key, when there is one, instead of asking the tracker
PInvokeCached(i) ==
    /\ inv[i].pc = "idle"
    /\ \E key \in PairKeys, url_set \in BOOLEAN :
          LET held == {j \in Calls : inv[j].pc = "done" /\ inv[j].ticket_key = key
                                     /\ inv[j].url_set = url_set}
          IN inv' = [inv EXCEPT ![i] =
                 IF held # {}
                 THEN [inv[CHOOSE j \in held : TRUE] EXCEPT !.http = <<>>]
                 ELSE [@ EXCEPT !.ticket_key = key, !.url_set = url_set,
                           !.pc = IF url_set THEN "fetch" ELSE "done",
                           !.result = IF url_set THEN <<>>
                                      ELSE <<Lit("Error: JIRA_URL not set.")>>]]
    /\ UNCHANGED notPairVars

\* lines 103-105
PInvoke(i) ==
    /\ inv[i].pc = "idle"
    /\ \E key \in PairKeys, url_set \in BOOLEAN :
          inv' = [inv EXCEPT ![i] =
                    [@ EXCEPT !.ticket_key = key, !.url_set = url_set,
                              !.pc = IF url_set THEN "fetch" ELSE "done",
                              !.result = IF url_set THEN <<>>
                                         ELSE <<Lit("Error: JIRA_URL not set.")>>]]
    /\ UNCHANGED notPairVars

\* line 125 raising, handled at lines 163-164
PFetchRaises(i) ==
    /\ inv[i].pc = "fetch"
    /\ \E cause \in TransportCauses(inv[i].ticket_key) :
          inv' = [inv EXCEPT ![i] =
                    [@ EXCEPT !.http = Append(@, Get(inv[i].ticket_key)),
                              !.pc = "done",
                              !.result = <<Lit("Exception reading Jira: ")>> \o cause]]
    /\ UNCHANGED notPairVars

\* lines 125-128
PFetchFails(i) ==
    /\ inv[i].pc = "fetch"
    /\ \E status \in FailureStatuses :
          inv' = [inv EXCEPT ![i] =
                    [@ EXCEPT !.http = Append(@, Get(inv[i].ticket_key)),
                              !.resp = [status |-> status, json |-> Null],
                              !.pc = "done",
                              !.result = <<Lit("Error fetching ticket "),
                                           Lit(inv[i].ticket_key), Lit(": "),
                                           Num(status)>>]]
    /\ UNCHANGED notPairVars

\* lines 125-140
PFetchOk(i) ==
    /\ inv[i].pc = "fetch"
    /\ \E data \in PairTickets(MaxPairComments) :
          LET fields == DictGet(data, "fields", Dict(<<>>))
              text == parse_adf_text(DictGet(fields, "description", Null))
              got == [inv[i] EXCEPT !.http = Append(@, Get(inv[i].ticket_key)),
                                    !.resp = [status |-> 200, json |-> data]]
          IN inv' = [inv EXCEPT ![i] =
                 IF text.kind = "raise"
                 THEN [got EXCEPT !.pc = "done",
                                  !.result = <<Lit("Exception reading Jira: "),
                                               Lit(text.val)>>]
                 ELSE [got EXCEPT
                         !.summary = DictGet(fields, "summary", Lit("No Summary")),
                         !.description = IF text.val # <<>> THEN Str(text.val)
                                         ELSE Lit("No Description"),
                         !.comments_data =
                            DictGet(DictGet(fields, "comment", Dict(<<>>)),
                                    "comments", List(<<>>)).v,
                         !.pc = "loop"]]
    /\ UNCHANGED notPairVars

\* a seen set that all invocations share
SeenOfAll(i) == UNION {inv[j].seen_comments : j \in Calls}

\* line 140: seen_comments is a local of the invocation
SeenOf(i) == inv[i].seen_comments

\* lines 142-150
PLoopStep(i) ==
    /\ inv[i].pc = "loop"
    /\ inv[i].idx <= Len(inv[i].comments_data)
    /\ LET acc == FilterStep([text |-> inv[i].comments_text, seen |-> SeenOf(i),
                              pairs |-> inv[i].emitted, raised |-> ""],
                             inv[i].comments_data[inv[i].idx])
       IN inv' = [inv EXCEPT ![i] =
              IF acc.raised # ""
              THEN [@ EXCEPT !.pc = "done",
                             !.result = <<Lit("Exception reading Jira: "),
                                          Lit(acc.raised)>>]
              ELSE [@ EXCEPT !.idx = @ + 1,
                             !.comments_text = acc.text,
                             !.seen_comments = acc.seen,
                             !.emitted = acc.pairs]]
    /\ UNCHANGED notPairVars

\* lines 153-161
PAssemble(i) ==
    /\ inv[i].pc = "loop"
    /\ inv[i].idx > Len(inv[i].comments_data)
    /\ inv' = [inv EXCEPT ![i] =
          [@ EXCEPT !.pc = "done",
                    !.result =
                       <<Lit("**Ticket:** "), Lit(inv[i].ticket_key),
                         Lit("\n**Summary:** "), inv[i].summary,
                         Lit("\n**Description:** "), inv[i].description,
                         Lit("\n\n**Discussion/Comments:**\n"),
                         IF inv[i].comments_text # <<>>
                         THEN Str(JoinWith(<<"\n">>, inv[i].comments_text))
                         ELSE Lit("No comments found.")>>]]
    /\ UNCHANGED notPairVars

NextPair ==
    \E i \in Calls :
       \/ PInvoke(i)
       \/ PFetchRaises(i)
       \/ PFetchFails(i)
       \/ PFetchOk(i)
       \/ PLoopStep(i)
       \/ PAssemble(i)

SpecPair == InitPair /\ [][NextPair]_vars

----------------------------------------------------------------------------
(* SpecIssue: one invocation of get_issue_context, agents/jira_agent.py    *)
(* lines 121-155.                                                          *)

MaxIssueComments == 6

\* line 133: the slice comments[-5:]
RecentCount == 5

IssueKeys == {"MM-7"}

\* the attribute of an object that is None
NONE == <<"N", "o", "n", "e">>

\* a comment of the client library: c.author (None for a removed account)
\* and c.body
IssueCommentPool ==
    { [author |-> <<"A">>, body |-> <<"a">>],
      [author |-> <<"B">>, body |-> <<"b">>],
      [author |-> NONE, body |-> <<"a">>] }

IssueCommentLists(n) == SeqsUpTo(IssueCommentPool, n)

\* issue.fields.assignee: a user, or None
Assignees == {<<"A">>, NONE}

\* the status codes of a JIRAError other than 404
OtherStatuses == {401, 500}

notIssueVars == <<parseVars, walkVars, ticketVars, pairVars, postVars, phaseVars>>

InitIssue ==
    /\ IssueIdle
    /\ TicketIdle
    /\ ParseIdle
    /\ WalkIdle
    /\ PairIdle
    /\ PostIdle
    /\ PhaseIdle

IssueFinish(segments) ==
    /\ issue_pc' = "done"
    /\ issue_result' = segments

\* s[:n] of a list s
Leading(s, n) == IF Len(s) <= n THEN s ELSE SubSeq(s, 1, n)

\* s[-n:] of a list s
Last(s, n) == IF Len(s) <= n THEN s ELSE SubSeq(s, Len(s) - n + 1, Len(s))

\* lines 126-128: the client is made and the issue is asked for
IssueCall ==
    /\ issue_pc = "idle"
    /\ \E key \in IssueKeys : issue_key' = key
    /\ issue_pc' = "fetch"
    /\ UNCHANGED <<issue, issue_pos, recent_comments, issue_result, notIssueVars>>

\* line 128 raising JIRAError with status 404: lines 150-152
IssueNotFound ==
    /\ issue_pc = "fetch"
    /\ issue' = [NoAnswer EXCEPT !.kind = "JIRAError", !.status_code = 404]
    /\ IssueFinish(<<Lit("Issue "), Lit(issue_key), Lit(" not found.")>>)
    /\ UNCHANGED <<issue_key, issue_pos, recent_comments, notIssueVars>>

\* line 128 raising JIRAError with another status: line 153
IssueApiError ==
    /\ issue_pc = "fetch"
    /\ \E code \in OtherStatuses :
          issue' = [NoAnswer EXCEPT !.kind = "JIRAError", !.status_code = code]
    /\ IssueFinish(<<Lit("Jira API Error: "), Lit("e.text")>>)
    /\ UNCHANGED <<issue_key, issue_pos, recent_comments, notIssueVars>>

\* line 128 raising anything else: lines 154-155
IssueRaises ==
    /\ issue_pc = "fetch"
    /\ issue' = [NoAnswer EXCEPT !.kind = "Exception"]
    /\ IssueFinish(<<Lit("Error fetching issue "), Lit(issue_key), Lit(": "),
                     Lit("ConnectionError")>>)
    /\ UNCHANGED <<issue_key, issue_pos, recent_comments, notIssueVars>>

\* lines 128-132: the issue is read, the loop is about to start
IssueRead ==
    /\ issue_pc = "fetch"
    /\ \E who \in Assignees, cs \in IssueCommentLists(MaxIssueComments) :
          issue' = [kind |-> "issue", status_code |-> 200, assignee |-> who,
                    comments |-> cs]
    /\ issue_pc' = "loop"
    /\ UNCHANGED <<issue_key, issue_pos, recent_comments, issue_result, notIssueVars>>

\* lines 133-134: the loop body on the next comment of the slice; the
\* attribute displayName of an author that is None raises AttributeError,
\* handled at lines 154-155
IssueLoopStep ==
    /\ issue_pc = "loop"
    /\ LET slice == Last(issue.comments, RecentCount)
       IN /\ issue_pos <= Len(slice)
          /\ IF slice[issue_pos].author = NONE
             THEN /\ IssueFinish(<<Lit("Error fetching issue "), Lit(issue_key),
                                   Lit(": "), Lit("AttributeError")>>)
                  /\ UNCHANGED <<issue_pos, recent_comments>>
             ELSE /\ recent_comments' =
                        Append(recent_comments,
                               Line(slice[issue_pos].author, slice[issue_pos].body))
                  /\ issue_pos' = issue_pos + 1
                  /\ UNCHANGED <<issue_pc, issue_result>>
    /\ UNCHANGED <<issue_key, issue, notIssueVars>>

\* lines 136-148: the context
IssueAssemble ==
    /\ issue_pc = "loop"
    /\ issue_pos > Len(Last(issue.comments, RecentCount))
    /\ IssueFinish(<<Lit("Ticket: "), Lit(issue_key),
                     Lit("\nSummary: "), Lit("summary"),
                     Lit("\nStatus: "), Lit("status"),
                     Lit("\nAssignee: "),
                     IF issue.assignee # NONE THEN Str(issue.assignee)
                     ELSE Lit("Unassigned"),
                     Lit("\nDescription: "), Lit("description"),
                     Lit("\n--- Recent Comments ---\n"),
                     IF recent_comments # <<>>
                     THEN Str(JoinWith(<<"\n">>, recent_comments))
                     ELSE Lit("No comments.")>>)
    /\ UNCHANGED <<issue_key, issue, issue_pos, recent_comments, notIssueVars>>

NextIssue ==
    \/ IssueCall
    \/ IssueNotFound
    \/ IssueApiError
    \/ IssueRaises
    \/ IssueRead
    \/ IssueLoopStep
    \/ IssueAssemble

SpecIssue == InitIssue /\ [][NextIssue]_vars

----------------------------------------------------------------------------
(* SpecPost: one invocation of post_mifos_summary, agent_start.py lines    *)
(* 186-209, with the two calls it makes on the Slack client.               *)

\* an argument or environment variable that is None, and the empty string
ABSENT == "None"

EMPTY == ""

Titles == {"t"}

ChannelIds == {ABSENT, EMPTY, "C1"}

MemberIds == {ABSENT, "U1"}

\* the ids of the DM channel that conversations_open answers with
DmIds == {"D1", "D2"}

\* e.response["error"] of a SlackApiError
SlackErrors == {"user_not_found", "ratelimited"}

\* what a call of the client raises that is no SlackApiError (the network
\* is down, the request is malformed)
OtherErrors == {"URLError"}

notPostVars == <<parseVars, walkVars, ticketVars, pairVars, issueVars, phaseVars>>

InitPost ==
    /\ PostIdle
    /\ TicketIdle
    /\ ParseIdle
    /\ WalkIdle
    /\ PairIdle
    /\ IssueIdle
    /\ PhaseIdle

\* lines 45-50: get_slack_client() gives a client only with a token and
\* the SDK
HasClient(args) == args.token /\ args.sdk

\* line 195: channel_id or os.getenv("MY_SLACK_ID")
UserId(args) ==
    IF args.channel_id \notin {ABSENT, EMPTY} THEN args.channel_id
    ELSE args.my_slack_id

\* lines 55 and 203: the header of the blocks
Header(args) ==
    IF args.is_draft THEN <<Lit("[DRAFT] "), Lit(args.title)>>
    ELSE <<Lit(args.title)>>

PostFinish(segments) ==
    /\ post_pc' = "done"
    /\ post_result' = segments

\* lines 191-196: the call and its two early returns
PostCall ==
    /\ post_pc = "idle"
    /\ \E title \in Titles, channel_id \in ChannelIds, is_draft \in BOOLEAN,
          token \in BOOLEAN, sdk \in BOOLEAN, my_slack_id \in MemberIds :
          LET args == [title |-> title, channel_id |-> channel_id,
                       is_draft |-> is_draft, token |-> token, sdk |-> sdk,
                       my_slack_id |-> my_slack_id]
          IN /\ post_args' = args
             /\ IF ~HasClient(args)
                THEN PostFinish(<<Lit("Slack SDK/Token missing.")>>)
                ELSE IF UserId(args) \in {ABSENT, EMPTY}
                THEN PostFinish(<<Lit("No Member ID found in .env")>>)
                ELSE post_pc' = "open" /\ UNCHANGED post_result
    /\ UNCHANGED <<slack_log, notPostVars>>

\* lines 200-201: conversations_open answers with the DM channel
PostOpenOk ==
    /\ post_pc = "open"
    /\ \E dm \in DmIds :
          slack_log' = Append(slack_log,
                          [call |-> "conversations_open", to |-> UserId(post_args),
                           text |-> <<>>, outcome |-> "ok", answer |-> dm])
    /\ post_pc' = "post"
    /\ UNCHANGED <<post_args, post_result, notPostVars>>

\* line 200 raising SlackApiError: lines 208-209
PostOpenFails ==
    /\ post_pc = "open"
    /\ \E err \in SlackErrors :
          /\ slack_log' = Append(slack_log,
                             [call |-> "conversations_open", to |-> UserId(post_args),
                              text |-> <<>>, outcome |-> "SlackApiError",
                              answer |-> err])
          /\ PostFinish(<<Lit("Slack Error: "), Lit(err)>>)
    /\ UNCHANGED <<post_args, notPostVars>>

\* line 200 raising another exception: no handler, the exception leaves the
\* function
PostOpenRaises ==
    /\ post_pc = "open"
    /\ \E err \in OtherErrors :
          /\ slack_log' = Append(slack_log,
                             [call |-> "conversations_open", to |-> UserId(post_args),
                              text |-> <<>>, outcome |-> "raise", answer |-> err])
          /\ post_pc' = "raised"
          /\ post_result' = <<Lit(err)>>
    /\ UNCHANGED <<post_args, notPostVars>>

\* a target that is the user the conversation was opened with
TargetUserId == UserId(post_args)

\* line 201: target_dm_id, the id the open call answered with
TargetDmId == slack_log[Len(slack_log)].answer

\* lines 203-206: chat_postMessage succeeds
PostSendOk ==
    /\ post_pc = "post"
    /\ slack_log' = Append(slack_log,
                       [call |-> "chat_postMessage", to |-> TargetDmId,
                        text |-> Header(post_args), outcome |-> "ok",
                        answer |-> "ok"])
    /\ PostFinish(<<Lit("Private DM sent successfully to you.")>>)
    /\ UNCHANGED <<post_args, notPostVars>>

\* line 204 raising SlackApiError: lines 208-209
PostSendFails ==
    /\ post_pc = "post"
    /\ \E err \in SlackErrors :
          /\ slack_log' = Append(slack_log,
                             [call |-> "chat_postMessage", to |-> TargetDmId,
                              text |-> Header(post_args),
                              outcome |-> "SlackApiError", answer |-> err])
          /\ PostFinish(<<Lit("Slack Error: "), Lit(err)>>)
    /\ UNCHANGED <<post_args, notPostVars>>

\* line 204 raising another exception: no handler
PostSendRaises ==
    /\ post_pc = "post"
    /\ \E err \in OtherErrors :
          /\ slack_log' = Append(slack_log,
                             [call |-> "chat_postMessage", to |-> TargetDmId,
                              text |-> Header(post_args), outcome |-> "raise",
                              answer |-> err])
          /\ post_pc' = "raised"
          /\ post_result' = <<Lit(err)>>
    /\ UNCHANGED <<post_args, notPostVars>>

NextPost ==
    \/ PostCall
    \/ PostOpenOk
    \/ PostOpenFails
    \/ PostOpenRaises
    \/ PostSendOk
    \/ PostSendFails
    \/ PostSendRaises

SpecPost == InitPost /\ [][NextPost]_vars

----------------------------------------------------------------------------
(* run_phase_1_test, test_phase1.py lines 20-91: the Jira key of a pull    *)
(* request (lines 43-53).                                                  *)

MaxTextLen == 3

Letters == {"a", "b", "A", "B"}

Digits == {"1", "2"}

\* str.upper() on the characters of the model
Upper(s) ==
    [i \in 1..Len(s) |-> IF s[i] = "a" THEN "A" ELSE IF s[i] = "b" THEN "B" ELSE s[i]]

\* the last position of the run of characters of set S that starts at i
RECURSIVE RunEnd(_, _, _)
RunEnd(s, i, S) ==
    IF i < Len(s) /\ s[i + 1] \in S THEN RunEnd(s, i + 1, S) ELSE i

\* line 43: where a match of [a-zA-Z]+-\d+ that starts at i ends, 0 when
\* none starts there; both runs are greedy, and giving letters back never
\* helps, a letter being no hyphen
MatchEnd(s, i) ==
    IF s[i] \notin Letters THEN 0
    ELSE LET j == RunEnd(s, i, Letters)
         IN IF j + 2 <= Len(s) /\ s[j + 1] = "-" /\ s[j + 2] \in Digits
            THEN RunEnd(s, j + 2, Digits)
            ELSE 0

\* re.search(jira_pattern, s, re.IGNORECASE).group(1): the leftmost match,
\* empty for None (a match is never empty)
Search(s) ==
    LET starts == {i \in 1..Len(s) : MatchEnd(s, i) # 0}
    IN IF starts = {} THEN <<>>
       ELSE LET i == CHOOSE x \in starts : \A y \in starts : x <= y
            IN SubSeq(s, i, MatchEnd(s, i))

\* a search that looks at the body before the title
JiraMatchBodyFirst(title, body) ==
    IF Search(body) # <<>> THEN Search(body) ELSE Search(title)

\* lines 44-45: the match in the title, or else the match in the body
JiraMatch(title, body) ==
    IF Search(title) # <<>> THEN Search(title) ELSE Search(body)

\* titles and bodies: every string of at most n characters, and some with
\* several keys, lower case, and near misses
KeyAlphabet == {"a", "B", "-", "1"}

PickedTexts ==
    { <<"a", "-", "1", SP, "B", "-", "2">>,
      <<"b", SP, "a", "b", "-", "1", "2", SP, "A", "-", "2">>,
      <<"a", "-", "b", "-", "2", "a">>,
      <<"a", "-", SP, "1", SP, "b", "1", "-", "2">>,
      <<"1", "-", "a", "B", "-", "-", "1">> }

KeyTexts(n) == SeqsUpTo(KeyAlphabet, n) \cup PickedTexts

----------------------------------------------------------------------------
(* SpecPhase: one run of run_phase_1_test.  The trace holds, in order, the *)
(* outbound steps the run has made: the GitHub read and the calls of       *)
(* get_jira_ticket_details, check_jira_for_ui_assets and                   *)
(* post_mifos_summary, each with how it ended.                             *)

Step(name, key, outcome) == [step |-> name, key |-> key, outcome |-> outcome]

\* pr_resp.json(): title and body of the pull request, the body possibly
\* null, either possibly missing
PrAnswers ==
    { Dict(<< <<"title", Str(<<"a", "-", "1">>)>>, <<"body", Str(<<"B", "-", "2">>)>> >>),
      Dict(<< <<"title", Str(<<"a", "b">>)>>, <<"body", Str(<<"b", "-", "2">>)>> >>),
      Dict(<< <<"title", Str(<<"a", "b">>)>>, <<"body", Null>> >>),
      Dict(<< <<"title", Str(<<"a", "b">>)>> >>),
      Dict(<< <<"body", Str(<<"a", "-", "1">>)>> >>),
      Dict(<< <<"title", Str(<<"A", "-", "1", "2">>)>>, <<"body", Null>> >>) }

\* how get_jira_ticket_details ends: it returns the report or an error
\* string (agent_start.py lines 105, 128, 161, 164)
DetailsOutcomes == {"report", "error"}

\* how check_jira_for_ui_assets ends: it returns the assets, their absence,
\* or an error string (agent_start.py lines 262-266)
AssetsOutcomes == {"assets", "none", "error"}

\* how post_mifos_summary ends: it returns success or an error string, or
\* an exception leaves it (agent_start.py lines 192-209)
PostOutcomes == {"sent", "error", "raise"}

notPhaseVars == <<parseVars, walkVars, ticketVars, pairVars, issueVars, postVars>>

InitPhase ==
    /\ PhaseIdle
    /\ TicketIdle
    /\ ParseIdle
    /\ WalkIdle
    /\ PairIdle
    /\ IssueIdle
    /\ PostIdle

\* lines 20-27, with the environment the run reads at line 76
PhaseStart ==
    /\ phase_pc = "idle"
    /\ phase_env' \in MemberIds \cup {EMPTY}
    /\ phase_pc' = "github"
    /\ UNCHANGED <<pr_title, pr_body, jira_id, phase_trace, notPhaseVars>>

\* lines 29-35: the GitHub read raises, or answers with an error status
GithubFails ==
    /\ phase_pc = "github"
    /\ phase_trace' = Append(phase_trace, Step("github", <<>>, "fail"))
    /\ phase_pc' = "done"
    /\ UNCHANGED <<phase_env, pr_title, pr_body, jira_id, notPhaseVars>>

\* lines 30-39: the pull request is read
GithubOk ==
    /\ phase_pc = "github"
    /\ \E pr_data \in PrAnswers :
          LET body == DictGet(pr_data, "body", Str(<<>>))
          IN /\ pr_title' = DictGet(pr_data, "title", Str(<<>>)).v
             /\ pr_body' = IF Truthy(body) THEN body.v ELSE <<>>
    /\ phase_trace' = Append(phase_trace, Step("github", <<>>, "ok"))
    /\ phase_pc' = "fetched"
    /\ UNCHANGED <<phase_env, jira_id, notPhaseVars>>

\* lines 43-54: the key is looked for; without one the run returns
ExtractKey ==
    /\ phase_pc = "fetched"
    /\ LET jira_match == JiraMatch(pr_title, pr_body)
       IN IF jira_match = <<>>
          THEN phase_pc' = "done" /\ UNCHANGED jira_id
          ELSE phase_pc' = "details" /\ jira_id' = Upper(jira_match)
    /\ UNCHANGED <<phase_env, pr_title, pr_body, phase_trace, notPhaseVars>>

\* line 58
QueryDetails ==
    /\ phase_pc = "details"
    /\ \E out \in DetailsOutcomes :
          phase_trace' = Append(phase_trace, Step("details", jira_id, out))
    /\ phase_pc' = "assets"
    /\ UNCHANGED <<phase_env, pr_title, pr_body, jira_id, notPhaseVars>>

\* line 59
QueryAssets ==
    /\ phase_pc = "assets"
    /\ \E out \in AssetsOutcomes :
          phase_trace' = Append(phase_trace, Step("assets", jira_id, out))
    /\ phase_pc' = "slack"
    /\ UNCHANGED <<phase_env, pr_title, pr_body, jira_id, notPhaseVars>>

\* a check that lets the run post whatever MY_SLACK_ID is
SlackCheckAlways ==
    /\ phase_pc = "slack"
    /\ phase_pc' = "post"
    /\ UNCHANGED <<phase_env, pr_title, pr_body, jira_id, phase_trace, notPhaseVars>>

\* lines 62-82: the report is made, and the run returns without MY_SLACK_ID
SlackCheck ==
    /\ phase_pc = "slack"
    /\ phase_pc' = IF phase_env \in {ABSENT, EMPTY} THEN "done" ELSE "post"
    /\ UNCHANGED <<phase_env, pr_title, pr_body, jira_id, phase_trace, notPhaseVars>>

\* lines 84-91
PostSummary ==
    /\ phase_pc = "post"
    /\ \E out \in PostOutcomes :
          /\ phase_trace' = Append(phase_trace, Step("post", jira_id, out))
          /\ phase_pc' = IF out = "raise" THEN "raised" ELSE "done"
    /\ UNCHANGED <<phase_env, pr_title, pr_body, jira_id, notPhaseVars>>

NextPhase ==
    \/ PhaseStart
    \/ GithubFails
    \/ GithubOk
    \/ ExtractKey
    \/ QueryDetails
    \/ QueryAssets
    \/ SlackCheck
    \/ PostSummary

SpecPhase == InitPhase /\ [][NextPhase]_vars

\* SpecKey: lines 43-54 on every title and body of KeyTexts
InitKey ==
    /\ phase_pc = "fetched"
    /\ phase_env = "U1"
    /\ pr_title \in KeyTexts(MaxTextLen)
    /\ pr_body \in KeyTexts(MaxTextLen)
    /\ jira_id = <<>>
    /\ phase_trace = <<Step("github", <<>>, "ok")>>
    /\ TicketIdle
    /\ ParseIdle
    /\ WalkIdle
    /\ PairIdle
    /\ IssueIdle
    /\ PostIdle

NextKey == ExtractKey

SpecKey == InitKey /\ [][NextKey]_vars

----------------------------------------------------------------------------
(* What the extractor is specified to return, stated on the tree alone.    *)

RECURSIVE Flatten(_)
Flatten(seqs) == IF seqs = <<>> THEN <<>> ELSE Head(seqs) \o Flatten(Tail(seqs))

\* the values of the "text" fields of the text-tagged dicts of a tree, in
\* depth-first pre-order: a dict's own value first, then its fields' and a
\* list's items' in iteration order
RECURSIVE TextValues(_)
TextValues(t) ==
    IF t.k = "dict"
    THEN LET tagged == \E i \in 1..Len(t.v) : t.v[i] = <<"type", Str(TEXT)>>
             held == SelectSeq(t.v, LAMBDA f : f[1] = "text")
             mine == IF tagged THEN [i \in 1..Len(held) |-> held[i][2]] ELSE <<>>
         IN mine \o Flatten([i \in 1..Len(t.v) |-> TextValues(t.v[i][2])])
    ELSE IF t.k = "list"
    THEN Flatten([i \in 1..Len(t.v) |-> TextValues(t.v[i])])
    ELSE <<>>

\* every text-tagged dict of the tree holds a string (or no "text" field)
StringTexts(t) == LET tv == TextValues(t) IN \A i \in 1..Len(tv) : tv[i].k = "str"

\* the non-empty strings among a sequence of values, as strings
NonEmptyStrings(vals) ==
    LET keep == SelectSeq(vals, LAMBDA x : x.k = "str" /\ x.v # <<>>)
    IN [i \in 1..Len(keep) |-> keep[i].v]

\* no leading, trailing or doubled space
CleanText(s) ==
    \/ s = <<>>
    \/ /\ s[1] # SP
       /\ s[Len(s)] # SP
       /\ \A i \in 1..(Len(s) - 1) : ~(s[i] = SP /\ s[i + 1] = SP)

\* C6: on every tree whose text-tagged dicts hold strings, parse_adf_text
\* returns the single-space join, untruncated, of the non-empty text values
\* of the text-tagged dicts in depth-first pre-order.
ParseIsPreorderJoin ==
    (parsed.kind # "none" /\ StringTexts(adf_node))
        => parsed = Returned(JoinWith(<<SP>>, NonEmptyStrings(TextValues(adf_node))))

HelloWorldDoc ==
    Dict(<< <<"type", Str(DOC)>>,
            <<"content", List(<<Dict(<< <<"type", Str(PARAGRAPH)>>,
                 <<"content", List(<<TextLeaf(Str(<<"a">>)),
                                     TextLeaf(Str(<<"b">>))>>)>> >>)>>)>> >>)

\* doc > paragraph > [text a, text b] has been extracted to "a b"
ParseHelloWorldSeen ==
    adf_node = HelloWorldDoc /\ parsed = Returned(<<"a", SP, "b">>)

\* C7: parse_adf_text returns "" for None, for an empty dict or list, and for
\* every tree without a text-tagged dict whose text value is non-empty.
ParseEmptyWithoutText ==
    (/\ parsed.kind # "none"
     /\ \/ adf_node \in {Null, Dict(<<>>), List(<<>>)}
        \/ LET tv == TextValues(adf_node)
           IN \A i \in 1..Len(tv) :
                 tv[i] \in {Null, Str(<<>>), Num(0), Dict(<<>>), List(<<>>)})
        => parsed = Returned(<<>>)

\* a non-empty tree holding an untagged dict with text and an empty text leaf
\* has been extracted to ""
ParseTextlessTreeSeen ==
    /\ adf_node = Container(PARAGRAPH,
                     <<Dict(<< <<"type", Str(PARAGRAPH)>>, <<"text", Str(<<"a">>)>> >>),
                       TextLeaf(Str(<<>>))>>)
    /\ parsed = Returned(<<>>)

\* C9: when every text leaf holds "" or a string without leading, trailing or
\* doubled space, the result has no leading, trailing or doubled space.
ParseNoBlankRuns ==
    (/\ parsed.kind # "none"
     /\ LET tv == TextValues(adf_node)
        IN \A i \in 1..Len(tv) : tv[i].k = "str" /\ CleanText(tv[i].v))
        => (parsed.kind = "return" /\ CleanText(parsed.val))

\* [a, "", {}, b], an empty leaf and an empty container between two texts, has
\* been extracted to "a b"
ParseEmptiesBetweenSeen ==
    /\ adf_node = List(<<TextLeaf(Str(<<"a">>)), TextLeaf(Str(<<>>)), Dict(<<>>),
                         TextLeaf(Str(<<"b">>))>>)
    /\ parsed = Returned(<<"a", SP, "b">>)

\* C10: on any node, malformed or not, parse_adf_text returns a string to
\* which a field it cannot interpret (a text value that is absent, null or
\* not a string) contributes the empty string; it never raises.
ParseToleratesMalformed ==
    parsed.kind # "none"
        => parsed = Returned(JoinWith(<<SP>>, NonEmptyStrings(TextValues(adf_node))))

----------------------------------------------------------------------------
(* Termination of the recursion.                                           *)

\* the values of a tree a call of parse_adf_text is made on: the tree, every
\* dict or list held by a field of a visited non-empty dict, every item of a
\* visited list
RECURSIVE VisitCount(_)
RECURSIVE SumSeq(_)
SumSeq(ns) == IF ns = <<>> THEN 0 ELSE Head(ns) + SumSeq(Tail(ns))
VisitCount(t) ==
    IF t.k = "dict"
    THEN 1 + SumSeq([i \in 1..Len(t.v) |->
                        IF t.v[i][2].k \in {"dict", "list"}
                        THEN VisitCount(t.v[i][2]) ELSE 0])
    ELSE IF t.k = "list"
    THEN 1 + SumSeq([i \in 1..Len(t.v) |-> VisitCount(t.v[i])])
    ELSE 1

\* c is held directly by p: a field value of the dict p or an item of the list p
HeldBy(c, p) ==
    \/ p.k = "dict" /\ \E i \in 1..Len(p.v) : p.v[i][2] = c
    \/ p.k = "list" /\ \E i \in 1..Len(p.v) : p.v[i] = c

WalkDescends ==
    /\ \A i \in 2..Len(walk_stack) :
          /\ HeldBy(walk_stack[i].node, walk_stack[i - 1].node)
          /\ VisitCount(walk_stack[i].node) < VisitCount(walk_stack[i - 1].node)
    /\ walk_stack # <<>> => walk_stack[1].node = walk_root
    /\ walk_calls <= VisitCount(walk_root)
    /\ walk_pc = "returned" => walk_calls = VisitCount(walk_root)

\* C8: on every finite tree the recursion of parse_adf_text ends; every
\* recursive call is on a value held by its caller's argument, a strictly
\* smaller tree, and a call that returns has visited every node exactly once.
WalkTerminates == []WalkDescends /\ <>(walk_pc \in {"returned", "raised"})

\* a tree of four dicts, three levels deep, has been walked to its end in
\* five calls
WalkDeepTreeReturned ==
    /\ walk_pc = "returned"
    /\ walk_root = Container(PARAGRAPH,
                     <<TextWith(<<TextLeaf(Str(<<"a">>))>>), TextLeaf(Str(<<>>))>>)
    /\ walk_calls = 5
    /\ walk_ret = Returned(<<"b", SP, "a">>)

\* the step-by-step execution and the operator parse_adf_text agree
WalkAgreesWithOperator ==
    walk_pc \in {"returned", "raised"} => walk_ret = parse_adf_text(walk_root)

\* the nodes of a tree in the order the input gives them: the node, then
\* what lies below each dict or list value of a dict in field order, or
\* below each item of a list in item order; nothing lies below a falsy
\* node or a scalar
RECURSIVE PreOrder(_)
PreOrder(t) ==
    LET below == IF t.k = "dict" /\ t.v # <<>>
                 THEN SelectSeq([i \in 1..Len(t.v) |-> t.v[i][2]],
                                LAMBDA x : x.k \in {"dict", "list"})
                 ELSE IF t.k = "list" THEN t.v ELSE <<>>
    IN <<t>> \o Flatten([i \in 1..Len(below) |-> PreOrder(below[i])])

\* C17: no step of a call changes the tree it was given or any variable
\* outside the walk; a second call on the same tree ends as the first did;
\* and the calls are made in the iteration order of the input: the
\* arguments of the calls made so far are the first nodes of the tree in
\* that order, and all of them when the call returns.
WalkIsPure ==
    /\ [][walk_root' = walk_root /\ UNCHANGED <<parseVars, ticketVars, sideVars>>]_vars
    /\ []( (walk_pc \in {"returned", "raised"} /\ walk_first # NotCalled)
             => walk_ret = walk_first )
    /\ []( LET order == PreOrder(walk_root)
           IN /\ Len(walk_order) <= Len(order)
              /\ walk_order = SubSeq(order, 1, Len(walk_order))
              /\ walk_pc = "returned" => walk_order = order )

\* a second walk of the three-level tree has returned what the first did
WalkSecondCallSeen ==
    /\ walk_pc = "returned"
    /\ walk_first = Returned(<<"b", SP, "a">>)
    /\ walk_ret = walk_first
    /\ Len(walk_order) = 5
    /\ walk_order[1] = walk_root

----------------------------------------------------------------------------
(* The comment filter.                                                     *)

\* the text an input comment carries: its extracted body, stripped
EntryText(c) ==
    LET holds == \E i \in 1..Len(c.v) : c.v[i][1] = "body"
        body == IF holds
                THEN c.v[CHOOSE i \in 1..Len(c.v) : c.v[i][1] = "body"][2]
                ELSE Null
    IN Strip(parse_adf_text(body).val)

\* the author an input comment carries, "Unknown" without a display name
EntryAuthor(c) ==
    LET authors == SelectSeq(c.v, LAMBDA f : f[1] = "author" /\ f[2].k = "dict")
        names == IF authors = <<>> THEN <<>>
                 ELSE SelectSeq(authors[1][2].v, LAMBDA f : f[1] = "displayName")
    IN IF names = <<>> THEN UNKNOWN ELSE names[1][2].v

\* the comments the loop has passed
Processed == 1..(idx - 1)

\* the invocation returned the report
Reported == pc = "done" /\ result[1] = Lit("**Ticket:** ")

\* the first processed comment carrying text t (0 when there is none)
FirstWith(t) ==
    IF \E i \in Processed : EntryText(comments_data[i]) = t
    THEN CHOOSE i \in Processed :
            /\ EntryText(comments_data[i]) = t
            /\ \A j \in 1..(i - 1) : EntryText(comments_data[j]) # t
    ELSE 0

\* C1: the filter emits at most as many entries as comments it was given (one
\* report line per entry), and the emitted texts are pairwise distinct.
FilterShrinksAndDistinct ==
    /\ Len(emitted) <= idx - 1
    /\ idx - 1 <= Len(comments_data)
    /\ Len(comments_text) = Len(emitted)
    /\ \A i \in 1..Len(emitted) :
          comments_text[i] = <<"-", SP>> \o emitted[i].author \o <<":", SP>>
                                 \o emitted[i].text
    /\ \A i, j \in 1..Len(emitted) : i # j => emitted[i].text # emitted[j].text

\* three comments, two of them with one text, were reported as two entries
FilterDroppedDuplicate ==
    /\ Reported
    /\ Len(comments_data) = 3
    /\ Len(emitted) = 2
    /\ \E i, j \in 1..3 :
          /\ i < j
          /\ EntryText(comments_data[i]) = EntryText(comments_data[j])
          /\ EntryText(comments_data[i]) # <<>>

\* C2: the emitted entries are a subsequence of the input in input order, and
\* each is the first input comment carrying its text, with that comment's
\* author.
FilterKeepsFirstInOrder ==
    /\ \A k \in 1..Len(emitted) :
          /\ FirstWith(emitted[k].text) # 0
          /\ emitted[k].author = EntryAuthor(comments_data[FirstWith(emitted[k].text)])
    /\ \A k, m \in 1..Len(emitted) :
          k < m => FirstWith(emitted[k].text) < FirstWith(emitted[m].text)

\* [A "fix applied", B "fix applied", C "", D "looks good"] was reported as
\* [A "fix applied", D "looks good"]
FilterScenarioSeen ==
    /\ Reported
    /\ comments_data = ScenarioComments
    /\ emitted = << [author |-> <<"A">>, text |-> <<"a">>],
                    [author |-> <<"D">>, text |-> <<"a", SP, "b">>] >>

\* C3: a comment whose text is empty or whitespace only is never emitted and
\* never enters the seen set.
FilterSkipsBlank ==
    /\ \A k \in 1..Len(emitted) :
          \E i \in 1..Len(emitted[k].text) : emitted[k].text[i] # SP
    /\ \A t \in seen_comments : \E i \in 1..Len(t) : t[i] # SP
    /\ \A i \in Processed :
          EntryText(comments_data[i]) = <<>> =>
             \A k \in 1..Len(emitted) :
                FirstWith(emitted[k].text) # i

\* a whitespace-only comment and a comment without body were passed, and the
\* comment after them was reported
FilterBlankThenTextSeen ==
    /\ Reported
    /\ comments_data = << Comment(AuthorNamed(<<"B">>), TextLeaf(Str(<<SP>>))),
                          Dict(<< <<"author", AuthorNamed(<<"A">>)>> >>),
                          Comment(AuthorNamed(<<"A">>), TextLeaf(Str(<<"a">>))) >>
    /\ emitted = << [author |-> <<"A">>, text |-> <<"a">>] >>

\* C4: an entry is dropped only when its stripped text is empty or equals,
\* character for character, the stripped text of an earlier entry: every
\* distinct non-empty stripped text of the input is emitted exactly once.
FilterIsExactMatch ==
    LET texts == {EntryText(comments_data[i]) : i \in Processed} \ {<<>>}
    IN /\ {emitted[k].text : k \in 1..Len(emitted)} = texts
       /\ Len(emitted) = Cardinality(texts)

\* "a", "A" and "a " were passed: "a" and "A" are both reported, "a " is not
FilterCaseKeptSeen ==
    /\ Reported
    /\ comments_data = << Comment(AuthorNamed(<<"A">>), TextLeaf(Str(<<"a">>))),
                          Comment(AuthorNamed(<<"A">>), TextLeaf(Str(<<"A">>))),
                          Comment(AuthorNamed(<<"B">>), TextLeaf(Str(<<"a", SP>>))) >>
    /\ emitted = << [author |-> <<"A">>, text |-> <<"a">>],
                    [author |-> <<"A">>, text |-> <<"A">>] >>

\* the emitted entries as comments: the author's display name, and a body
\* that is one text node
AsComments(pairs) ==
    [k \in 1..Len(pairs) |->
        Dict(<< <<"author", Dict(<< <<"displayName", Str(pairs[k].author)>> >>)>>,
                <<"body", Dict(<< <<"type", Str(TEXT)>>,
                                  <<"text", Str(pairs[k].text)>> >>)>> >>)]

\* C5: filtering the emitted entries again, as comments with one text node
\* each, gives the same entries and the same report lines.
FilterIdempotent ==
    pc \in {"loop", "done"} =>
        LET again == RunFilter(EmptyAcc, AsComments(emitted))
        IN /\ again.raised = ""
           /\ again.pairs = emitted
           /\ again.text = comments_text

\* a report of two entries made from three comments is left as it is by a
\* second pass
FilterSecondPassSeen ==
    /\ Reported
    /\ Len(comments_data) = 3
    /\ Len(emitted) = 2
    /\ RunFilter(EmptyAcc, AsComments(emitted)).pairs = emitted
    /\ emitted[1].author # emitted[2].author

----------------------------------------------------------------------------
(* The results of one invocation.                                          *)

\* the fields and the comments of the answer that was read
FetchedFields == DictGet(resp.json, "fields", Dict(<<>>))

FetchedComments ==
    DictGet(DictGet(FetchedFields, "comment", Dict(<<>>)), "comments", List(<<>>)).v

\* the body an input comment carries, null without one
EntryBody(c) ==
    LET bodies == SelectSeq(c.v, LAMBDA f : f[1] = "body")
    IN IF bodies = <<>> THEN Null ELSE bodies[1][2]

\* the comment says "author": null
AuthorIsNull(c) == \E i \in 1..Len(c.v) : c.v[i] = <<"author", Null>>

\* a 200 answer was read whose description and comment bodies all extract
\* to a string
FetchedExtractable ==
    /\ resp.status = 200
    /\ parse_adf_text(DictGet(FetchedFields, "description", Null)).kind = "return"
    /\ \A i \in 1..Len(FetchedComments) :
          parse_adf_text(EntryBody(FetchedComments[i])).kind = "return"

\* no locals of the report were written
NothingExtracted ==
    /\ summary = <<>>
    /\ description = <<>>
    /\ comments_data = <<>>
    /\ idx = 1
    /\ comments_text = <<>>
    /\ seen_comments = {}
    /\ emitted = <<>>

\* C11: once the tracker has answered with a status other than 200, the
\* invocation has returned an error naming the requested key and that status,
\* and nothing of the report was produced: no summary, no description, no
\* comment was read, extracted or filtered.
StatusFailureNamesKeyAndStatus ==
    resp.status \notin {0, 200} =>
        /\ pc = "done"
        /\ result = <<Lit("Error fetching ticket "), Lit(ticket_key), Lit(": "),
                      Num(resp.status)>>
        /\ resp.json = Null
        /\ NothingExtracted

\* the tracker answered 404 and the invocation returned
StatusNotFoundSeen ==
    /\ pc = "done"
    /\ resp.status = 404
    /\ ticket_key = "ABC-1"
    /\ result[4] = Num(404)

\* the invocation ended at the fetch: the tracker was asked and no 200
\* answer was read
FetchFailed ==
    /\ pc = "done"
    /\ resp.status # 200
    /\ result[1] # Lit("Error: JIRA_URL not set.")

\* C12: whenever the fetch fails, by a status other than 200 or by no answer
\* at all, the returned message names the ticket key and a cause.
FetchFailureNamesKeyAndCause ==
    FetchFailed =>
        /\ Len(result) >= 2
        /\ \E i \in 1..Len(result) : result[i] = Lit(ticket_key)
        /\ \E i \in 1..Len(result) :
              /\ result[i] # Lit(ticket_key)
              /\ i > 1

\* C14: a report always has its four labelled parts, with the requested key
\* and the ticket's summary; its description part reads "No Description"
\* exactly when the description extracts to the empty string, and its
\* discussion part reads "No comments found." exactly when no comment was
\* kept.  A 200 answer whose description and comments are well formed always
\* ends in a report, also when they are empty.
ReportStatesEmptySections ==
    LET text == parse_adf_text(DictGet(FetchedFields, "description", Null))
    IN /\ Reported =>
             /\ Len(result) = 8
             /\ result[1] = Lit("**Ticket:** ")
             /\ result[2] = Lit(ticket_key)
             /\ result[3] = Lit("\n**Summary:** ")
             /\ result[4] = DictGet(FetchedFields, "summary", Lit("No Summary"))
             /\ result[5] = Lit("\n**Description:** ")
             /\ result[6] = IF text.val = <<>> THEN Lit("No Description")
                            ELSE Str(text.val)
             /\ result[7] = Lit("\n\n**Discussion/Comments:**\n")
             /\ (emitted = <<>>) <=> (result[8] = Lit("No comments found."))
             /\ emitted # <<>> => result[8] = Str(JoinWith(<<"\n">>, comments_text))
       /\ ( /\ pc = "done"
            /\ FetchedExtractable
            /\ \A i \in 1..Len(FetchedComments) : ~AuthorIsNull(FetchedComments[i]) )
          => Reported

\* a ticket without description whose two comments were both filtered out
\* was reported with both placeholders
ReportOfEmptyTicketSeen ==
    /\ Reported
    /\ DictGet(FetchedFields, "description", Null) = Null
    /\ Len(comments_data) = 2
    /\ idx = 3
    /\ result[6] = Lit("No Description")
    /\ result[8] = Lit("No comments found.")

\* C15: comments whose author is absent, null or without display name do
\* not stop the filter: when the description and every comment body extract
\* to a string, the invocation ends in a report, every comment was
\* processed, and such a comment is emitted as "Unknown" when its text is
\* non-empty and new.
FilterToleratesMalformedAuthor ==
    (pc = "done" /\ FetchedExtractable) =>
        /\ Reported
        /\ idx = Len(FetchedComments) + 1
        /\ \A i \in Processed :
              ( /\ EntryAuthor(comments_data[i]) = UNKNOWN
                /\ EntryText(comments_data[i]) # <<>>
                /\ FirstWith(EntryText(comments_data[i])) = i )
              => \E k \in 1..Len(emitted) :
                    emitted[k] = [author |-> UNKNOWN,
                                  text |-> EntryText(comments_data[i])]

\* C20: at every point of the loop the seen set is the set of the texts
\* emitted so far and has as many members as there are emitted entries, and
\* no step takes a text out of the seen set.
SeenIsEmittedTexts ==
    /\ seen_comments = {emitted[k].text : k \in 1..Len(emitted)}
    /\ Cardinality(seen_comments) = Len(emitted)

SeenSetInvariant ==
    /\ []SeenIsEmittedTexts
    /\ [][seen_comments \subseteq seen_comments']_vars

\* the loop stands after the second of three comments with two texts seen
SeenTwoMidLoop ==
    /\ pc = "loop"
    /\ Len(comments_data) = 3
    /\ idx = 3
    /\ Cardinality(seen_comments) = 2

----------------------------------------------------------------------------
(* Two invocations.                                                        *)

\* C13 as stated: an invocation that has returned has issued exactly one
\* HTTP call, a GET.
EveryCallReadsOnce ==
    \A i \in Calls :
       inv[i].pc = "done" =>
          /\ Len(inv[i].http) = 1
          /\ inv[i].http[1].method = "GET"

\* C13, amended: an invocation issues at most one HTTP call, a GET of its
\* own ticket, and never a write; it has issued exactly one once it is past
\* the fetch with JIRA_URL set, whatever the outcome of the fetch and
\* whatever another invocation has read before, and none when JIRA_URL is
\* not set.
CallReadsOnceWhenConfigured ==
    \A i \in Calls :
       /\ Len(inv[i].http) <= 1
       /\ \A k \in 1..Len(inv[i].http) :
             /\ inv[i].http[k].method = "GET"
             /\ inv[i].http[k].path = <<"/rest/api/3/issue/", inv[i].ticket_key>>
       /\ inv[i].pc \in {"idle", "fetch"} => inv[i].http = <<>>
       /\ inv[i].pc \in {"loop", "done"} =>
             Len(inv[i].http) = IF inv[i].url_set THEN 1 ELSE 0

\* two invocations for one key have returned, the first after a 500 answer
\* and the second with a report, each after one GET
FailedThenReadAgainSeen ==
    /\ inv["first"].pc = "done" /\ inv["second"].pc = "done"
    /\ inv["first"].ticket_key = "ABC-1" /\ inv["second"].ticket_key = "ABC-1"
    /\ inv["first"].resp.status = 500
    /\ inv["second"].result[1] = Lit("**Ticket:** ")
    /\ Len(inv["first"].http) = 1 /\ Len(inv["second"].http) = 1

\* what an invocation returns when it runs alone, from its argument, its
\* environment and the tracker's answer to it (without an answer, one of the
\* messages of the transport's failures)
AloneResult(c) ==
    LET fields == DictGet(c.resp.json, "fields", Dict(<<>>))
        text == parse_adf_text(DictGet(fields, "description", Null))
        comments == DictGet(DictGet(fields, "comment", Dict(<<>>)),
                            "comments", List(<<>>)).v
        acc == RunFilter(EmptyAcc, comments)
    IN IF ~c.url_set THEN <<Lit("Error: JIRA_URL not set.")>>
       ELSE IF c.resp.status = 0
       THEN IF \E cause \in TransportCauses(c.ticket_key) :
                  c.result = <<Lit("Exception reading Jira: ")>> \o cause
            THEN c.result ELSE <<>>
       ELSE IF c.resp.status # 200
       THEN <<Lit("Error fetching ticket "), Lit(c.ticket_key), Lit(": "),
              Num(c.resp.status)>>
       ELSE IF text.kind = "raise"
       THEN <<Lit("Exception reading Jira: "), Lit(text.val)>>
       ELSE IF acc.raised # ""
       THEN <<Lit("Exception reading Jira: "), Lit(acc.raised)>>
       ELSE <<Lit("**Ticket:** "), Lit(c.ticket_key),
              Lit("\n**Summary:** "), DictGet(fields, "summary", Lit("No Summary")),
              Lit("\n**Description:** "),
              IF text.val # <<>> THEN Str(text.val) ELSE Lit("No Description"),
              Lit("\n\n**Discussion/Comments:**\n"),
              IF acc.text # <<>> THEN Str(JoinWith(<<"\n">>, acc.text))
              ELSE Lit("No comments found.")>>

\* C16: under every interleaving of the steps of two invocations, each
\* invocation's locals in its loop are those of the loop run alone on the
\* comments it has passed, and what it returns is what it returns alone: a
\* text seen by one invocation is not suppressed in the other.
CallsDoNotInterfere ==
    \A i \in Calls :
       /\ inv[i].pc = "loop" =>
             LET acc == RunFilter(EmptyAcc,
                           SubSeq(inv[i].comments_data, 1, inv[i].idx - 1))
             IN /\ acc.raised = ""
                /\ inv[i].comments_text = acc.text
                /\ inv[i].seen_comments = acc.seen
                /\ inv[i].emitted = acc.pairs
       /\ inv[i].pc = "done" => inv[i].result = AloneResult(inv[i])

\* both invocations stand inside their loops, for different tickets, and
\* each has emitted the text "a" that the other has seen
SharedTextInBothSeen ==
    /\ inv["first"].pc = "loop" /\ inv["second"].pc = "loop"
    /\ inv["first"].ticket_key # inv["second"].ticket_key
    /\ inv["first"].idx = 2 /\ inv["second"].idx = 2
    /\ Len(inv["first"].comments_data) = 2
    /\ <<"a">> \in inv["first"].seen_comments
    /\ inv["second"].emitted = << [author |-> <<"A">>, text |-> <<"a">>] >>

----------------------------------------------------------------------------
(* get_issue_context.                                                      *)

IssueReported == issue_pc = "done" /\ issue_result[1] = Lit("Ticket: ")

\* C18: the context never holds more than 5 comment lines; a returned
\* context holds one line for each of the last 5 comments of the issue (for
\* each comment when there are 5 or fewer), in the issue's order, and reads
\* "No comments." when the issue has none; a 404 answer gives
\* "Issue <key> not found." and no context.
IssueReportsLastFive ==
    /\ Len(recent_comments) <= 5
    /\ IssueReported =>
          LET all == issue.comments
              n == Len(all)
              m == IF n <= 5 THEN n ELSE 5
          IN /\ Len(recent_comments) = m
             /\ \A k \in 1..m :
                   recent_comments[k] =
                      <<"-", SP>> \o all[n - m + k].author \o <<":", SP>>
                         \o all[n - m + k].body
             /\ Len(issue_result) = 12
             /\ issue_result[2] = Lit(issue_key)
             /\ issue_result[11] = Lit("\n--- Recent Comments ---\n")
             /\ (n = 0) <=> (issue_result[12] = Lit("No comments."))
             /\ n > 0 => issue_result[12] = Str(JoinWith(<<"\n">>, recent_comments))
    /\ (issue.kind = "JIRAError" /\ issue.status_code = 404) =>
          /\ issue_pc = "done"
          /\ issue_result = <<Lit("Issue "), Lit(issue_key), Lit(" not found.")>>
          /\ recent_comments = <<>>

\* an issue of six comments, the first by A and the others by B, was
\* reported with five lines, all by B
IssueSixCommentsSeen ==
    /\ IssueReported
    /\ Len(issue.comments) = 6
    /\ issue.comments[1].author = <<"A">>
    /\ \A k \in 2..6 : issue.comments[k].author = <<"B">>
    /\ Len(recent_comments) = 5
    /\ recent_comments[1] = <<"-", SP, "B", ":", SP, "b">>

----------------------------------------------------------------------------
(* post_mifos_summary.                                                     *)

\* C19: whatever the two Slack calls do, the invocation ends by returning:
\* no call leaves the function by an exception, and what is returned is the
\* success message or an error with its reason.
PostAlwaysReturns ==
    /\ post_pc # "raised"
    /\ post_pc = "done" =>
          \/ post_result = <<Lit("Private DM sent successfully to you.")>>
          \/ post_result = <<Lit("Slack SDK/Token missing.")>>
          \/ post_result = <<Lit("No Member ID found in .env")>>
          \/ /\ Len(post_result) = 2
             /\ post_result[1] = Lit("Slack Error: ")
    /\ (slack_log # <<>> /\ slack_log[Len(slack_log)].outcome # "ok") =>
          post_pc = "done"

\* the positions of the log at which a message was posted
Posts == {k \in 1..Len(slack_log) : slack_log[k].call = "chat_postMessage"}

\* the invocation has no client, or neither argument nor environment names
\* a target
PostUnconfigured ==
    /\ post_pc # "idle"
    /\ \/ ~post_args.token
       \/ ~post_args.sdk
       \/ /\ post_args.channel_id \in {ABSENT, EMPTY}
          /\ post_args.my_slack_id \in {ABSENT, EMPTY}

\* C21: a message is posted at most once, only as the call after a
\* conversations_open that succeeded for the target user, and to the channel
\* id that call answered with; without client or target the invocation
\* returns an error and has made no Slack call; after an open that failed
\* no further call is made.
PostOnlyAfterOpen ==
    /\ Cardinality(Posts) <= 1
    /\ \A k \in Posts :
          /\ k = 2
          /\ slack_log[1].call = "conversations_open"
          /\ slack_log[1].outcome = "ok"
          /\ slack_log[1].to = IF post_args.channel_id \in {ABSENT, EMPTY}
                               THEN post_args.my_slack_id
                               ELSE post_args.channel_id
          /\ slack_log[k].to = slack_log[1].answer
    /\ PostUnconfigured =>
          /\ post_pc = "done"
          /\ post_result \in {<<Lit("Slack SDK/Token missing.")>>,
                               <<Lit("No Member ID found in .env")>>}
          /\ slack_log = <<>>
    /\ \A k \in 1..Len(slack_log) :
          (slack_log[k].call = "conversations_open" /\ slack_log[k].outcome # "ok")
             => Len(slack_log) = k

\* without channel_id the conversation was opened with MY_SLACK_ID, answered
\* with D2, and the message went to D2
PostToOpenedChannelSeen ==
    /\ post_pc = "done"
    /\ post_args.channel_id = EMPTY
    /\ post_args.my_slack_id = "U1"
    /\ Len(slack_log) = 2
    /\ slack_log[1].to = "U1"
    /\ slack_log[1].answer = "D2"
    /\ slack_log[2].to = "D2"
    /\ post_result = <<Lit("Private DM sent successfully to you.")>>

----------------------------------------------------------------------------
(* run_phase_1_test.                                                       *)

\* s[i..j] is key-shaped: letters, one hyphen, digits
KeyAt(s, i, j) ==
    \E h \in (i + 1)..(j - 1) :
       /\ s[h] = "-"
       /\ \A x \in i..(h - 1) : s[x] \in {"a", "b", "A", "B"}
       /\ \A x \in (h + 1)..j : s[x] \in {"1", "2"}

\* the first key-shaped part of s: the one that starts leftmost, taken as
\* far as it goes; empty when s has none
FirstKey(s) ==
    LET keys == {p \in (1..Len(s)) \X (1..Len(s)) : KeyAt(s, p[1], p[2])}
    IN IF keys = {} THEN <<>>
       ELSE LET k == CHOOSE p \in keys :
                        \A q \in keys : p[1] < q[1] \/ (p[1] = q[1] /\ p[2] >= q[2])
            IN SubSeq(s, k[1], k[2])

\* u is s in upper case
IsUpperOf(u, s) ==
    /\ Len(u) = Len(s)
    /\ \A i \in 1..Len(s) :
          u[i] = IF s[i] = "a" THEN "A" ELSE IF s[i] = "b" THEN "B" ELSE s[i]

\* C23: once the key has been looked for, the run goes on exactly when the
\* title or the body holds a key-shaped part, and the key it uses is then the
\* first such part of the title when the title has one, otherwise the first
\* such part of the body, in upper case; a later part, and the body when
\* the title has a part, are not looked at.
KeyIsFirstOfTitleThenBody ==
    phase_pc # "fetched" /\ phase_trace # <<>> /\ phase_trace[1].outcome = "ok" =>
        LET t == FirstKey(pr_title)
            b == FirstKey(pr_body)
            used == IF t # <<>> THEN t ELSE b
        IN /\ (used = <<>>) <=> (jira_id = <<>>)
           /\ used = <<>> => phase_pc = "done"
           /\ used # <<>> => IsUpperOf(jira_id, used)

\* the title holds ab-12 and then A-2, the body a-1 and B-2: AB-12 is used
KeyOfTitleWithSeveralSeen ==
    /\ phase_pc = "details"
    /\ pr_title = <<"b", SP, "a", "b", "-", "1", "2", SP, "A", "-", "2">>
    /\ pr_body = <<"a", "-", "1", SP, "B", "-", "2">>
    /\ jira_id = <<"A", "B", "-", "1", "2">>

\* the steps of a run, in the order of the code
StepOrder == <<"github", "details", "assets", "post">>

\* the steps made so far are the first steps of StepOrder
TraceInOrder ==
    /\ Len(phase_trace) <= 4
    /\ \A k \in 1..Len(phase_trace) : phase_trace[k].step = StepOrder[k]

\* the positions of the trace at which post_mifos_summary was called
PostCalls == {k \in 1..Len(phase_trace) : phase_trace[k].step = "post"}

\* C22 as stated: the steps are made in order, a step is made only when
\* every step before it succeeded, Jira is not queried after a failed
\* GitHub read or without key, and post_mifos_summary is called at most
\* once, after both Jira queries and with MY_SLACK_ID set.
PhaseStepsNeedSuccess ==
    /\ TraceInOrder
    /\ \A k \in 1..Len(phase_trace) :
          \A j \in 1..(k - 1) :
             phase_trace[j].outcome \in {"ok", "report", "assets", "none"}
    /\ Len(phase_trace) >= 2 => jira_id # <<>>
    /\ Cardinality(PostCalls) <= 1
    /\ \A k \in PostCalls : k = 4 /\ phase_env \notin {ABSENT, EMPTY}

\* C22, amended: the steps are made in order; Jira is queried only after
\* the GitHub read succeeded and a key was found, and with that key; the
\* attachment check follows the ticket query, and the post follows both,
\* whether or not a Jira query returned an error string;
\* post_mifos_summary is called at most once, as the fourth step, for the
\* key, and only with MY_SLACK_ID set, and a run that ends after both Jira
\* queries without posting is one without MY_SLACK_ID.
PhaseStepsInOrder ==
    /\ TraceInOrder
    /\ (phase_trace # <<>> /\ phase_trace[1].outcome = "fail") =>
          Len(phase_trace) = 1 /\ phase_pc = "done"
    /\ Len(phase_trace) >= 2 =>
          /\ phase_trace[1].outcome = "ok"
          /\ jira_id # <<>>
          /\ \A k \in 2..Len(phase_trace) : phase_trace[k].key = jira_id
    /\ (jira_id = <<>> /\ phase_pc = "done") => Len(phase_trace) = 1
    /\ (phase_pc \in {"slack", "post", "done", "raised"} /\ jira_id # <<>>) =>
          Len(phase_trace) >= 3
    /\ Cardinality(PostCalls) <= 1
    /\ \A k \in PostCalls : k = 4 /\ phase_env \notin {ABSENT, EMPTY}
    /\ (phase_pc \in {"done", "raised"} /\ jira_id # <<>>) =>
          (Len(phase_trace) = 4 <=> phase_env \notin {ABSENT, EMPTY})

\* a run whose two Jira queries both returned error strings has posted
PostedAfterJiraErrorsSeen ==
    /\ phase_pc = "done"
    /\ Len(phase_trace) = 4
    /\ phase_trace[2] = Step("details", jira_id, "error")
    /\ phase_trace[3] = Step("assets", jira_id, "error")
    /\ phase_trace[4] = Step("post", jira_id, "sent")
    /\ phase_env = "U1"

====
